---- MODULE Spec2Model ----
(***************************************************************************)
(* kafka::make_partition_proxy (src/v/kafka/server/partition_proxy.cc).    *)
(*                                                                         *)
(* The factory looks an identifier (model::ktp) up in the shard's          *)
(* cluster::partition_manager and, when a partition is found, wraps a      *)
(* freshly allocated replicated_partition adapter into a partition_proxy.  *)
(*                                                                         *)
(* The model keeps the heap the factory works on:                          *)
(*   - the registry's table identifier -> partition handle,                *)
(*   - the use count of every partition object (ss::lw_shared_ptr),        *)
(*   - the adapters allocated by std::make_unique and the handle each one  *)
(*     stores,                                                             *)
(*   - the partition_proxy objects and the std::unique_ptr<impl> of each,  *)
(*   - every caller's position inside make_partition_proxy.                *)
(*                                                                         *)
(* partition_manager, lw_shared_ptr, replicated_partition and the          *)
(* partition_proxy class are declared in headers outside this file; their  *)
(* behaviour is modelled from the design document.                         *)
(***************************************************************************)
EXTENDS Integers, FiniteSets, Sequences, TLC

\* ---------------------------------------------------------------- bounds
NumIds      == 2    \* identifiers (model::ktp values) in play
MaxHandles  == 2    \* partition objects that can be alive at once
MaxProxies  == 2    \* partition_proxy objects the callers can store
NumCallers  == 2    \* call sites inside make_partition_proxy at once
NumFaults   == 2    \* distinct faults the registry can raise
NumOps      == 2    \* operations of the capability interface

Ids       == 1..NumIds
Handles   == 1..MaxHandles
ProxyIds  == 1..MaxProxies
\* an adapter is reachable only through a proxy, so as many addresses
AdapterIds == 1..MaxProxies
Callers   == 1..NumCallers
Faults    == 1..NumFaults
Ops       == 1..NumOps

\* the null pointer / the empty lw_shared_ptr / "no fault"
nullptr == 0

VARIABLES
    ntp_table,          \* partition_manager: identifier -> handle or nullptr
    use_count,          \* lw_shared_ptr use count of every partition object
    adapters,           \* live replicated_partition objects (make_unique)
    adapter_partition,  \* the handle stored in each adapter
    proxies,            \* partition_proxy objects that exist
    impl,               \* partition_proxy::_impl : adapter or nullptr
    call,               \* per caller: position and locals of the call
    result,             \* per caller: what make_partition_proxy returned
    last                \* the last operation performed on a proxy

vars == <<ntp_table, use_count, adapters, adapter_partition, proxies, impl,
          call, result, last>>

\* ------------------------------------------------------------ the heap
Heap ==
    [use_count |-> use_count, adapters |-> adapters,
     adapter_partition |-> adapter_partition,
     proxies |-> proxies, impl |-> impl]

SetHeap(h) ==
    /\ use_count' = h.use_count
    /\ adapters' = h.adapters
    /\ adapter_partition' = h.adapter_partition
    /\ proxies' = h.proxies
    /\ impl' = h.impl

Min(S) == CHOOSE x \in S : \A y \in S : x <= y

\* copying an lw_shared_ptr adds one owner, destroying it removes one
acquire(uc, h) == IF h \in Handles THEN [uc EXCEPT ![h] = @ + 1] ELSE uc
release(uc, h) == IF h \in Handles THEN [uc EXCEPT ![h] = @ - 1] ELSE uc

\* the address operator new hands out
FreeAdapters(heap) == AdapterIds \ heap.adapters
FreeProxies(heap) == ProxyIds \ heap.proxies
FreeHandles == {h \in Handles : use_count[h] = 0}

NoCall == [pc |-> "idle", ktp |-> nullptr, partition |-> nullptr,
           held |-> nullptr, raised |-> nullptr]
NoResult == [outcome |-> "none", proxy |-> nullptr, fault |-> nullptr]
NoOp == [kind |-> "none", proxy |-> nullptr, other |-> nullptr,
         adapter |-> nullptr, handle |-> nullptr, op |-> nullptr]

\* ------------------------------------------------------------ registry
\* cluster::partition_manager::get
get(table, ktp) == table[ktp]

\* ---------------------------------------------------------- the factory
\* mutants of make_with_impl
\* the arguments are not forwarded: the adapter is built around no handle
make_with_impl_unforwarded(heap, p, partition) ==
    LET a == Min(FreeAdapters(heap)) IN
    [heap EXCEPT !.adapters = @ \cup {a},
                 !.adapter_partition = [@ EXCEPT ![a] = nullptr],
                 !.proxies = @ \cup {p},
                 !.impl = [@ EXCEPT ![p] = a]]

\* the adapter keeps a non-owning pointer to the partition
make_with_impl_raw(heap, p, partition) ==
    LET a == Min(FreeAdapters(heap)) IN
    [heap EXCEPT !.adapters = @ \cup {a},
                 !.adapter_partition = [@ EXCEPT ![a] = partition],
                 !.proxies = @ \cup {p},
                 !.impl = [@ EXCEPT ![p] = a]]

\* one adapter per partition is cached and handed to every proxy
make_with_impl_shared(heap, p, partition) ==
    LET same == {a \in heap.adapters : heap.adapter_partition[a] = partition}
        a == IF same # {} THEN Min(same) ELSE Min(FreeAdapters(heap)) IN
    [heap EXCEPT !.use_count = IF same # {} THEN @ ELSE acquire(@, partition),
                 !.adapters = @ \cup {a},
                 !.adapter_partition = [@ EXCEPT ![a] = partition],
                 !.proxies = @ \cup {p},
                 !.impl = [@ EXCEPT ![p] = a]]

\* the proxy is built around an empty unique_ptr
make_with_impl_null(heap, p, partition) ==
    [heap EXCEPT !.proxies = @ \cup {p},
                 !.impl = [@ EXCEPT ![p] = nullptr]]

\* the handle is copied once more than it is stored
make_with_impl_leak(heap, p, partition) ==
    LET a == Min(FreeAdapters(heap)) IN
    [heap EXCEPT !.use_count = acquire(acquire(@, partition), partition),
                 !.adapters = @ \cup {a},
                 !.adapter_partition = [@ EXCEPT ![a] = partition],
                 !.proxies = @ \cup {p},
                 !.impl = [@ EXCEPT ![p] = a]]

\* make_with_impl<Impl>(args...): std::make_unique<Impl>(args...) allocates
\* one new adapter that stores a copy of the handle; partition_proxy(...)
\* takes the unique_ptr over.  p is the storage of the new proxy.
make_with_impl(heap, p, partition) ==
    LET a == Min(FreeAdapters(heap)) IN
    [heap EXCEPT !.use_count = acquire(@, partition),
                 !.adapters = @ \cup {a},
                 !.adapter_partition = [@ EXCEPT ![a] = partition],
                 !.proxies = @ \cup {p},
                 !.impl = [@ EXCEPT ![p] = a]]

\* mutants of make_partition_proxy
\* the test of the lookup result is dropped
make_partition_proxy_untested(heap, p, partition) ==
    [heap |-> make_with_impl(heap, p, partition),
     result |-> [outcome |-> "proxy", proxy |-> p, fault |-> nullptr]]

\* lines 27-30 of make_partition_proxy: the branch on the lookup result.
\* The temporary partition_proxy is moved into the std::optional and
\* destroyed within the return statement; p is the proxy in the optional.
make_partition_proxy(heap, p, partition) ==
    IF partition # nullptr
    THEN [heap |-> make_with_impl(heap, p, partition),
          result |-> [outcome |-> "proxy", proxy |-> p, fault |-> nullptr]]
    ELSE [heap |-> heap,
          result |-> [outcome |-> "empty", proxy |-> nullptr,
                      fault |-> nullptr]]

\* mutants of make_partition_proxy_get
\* a fault of the registry is caught and reported as "not found"
make_partition_proxy_get_swallow(c, ktp, fault) ==
    /\ call[c].pc = "idle"
    /\ IF fault # nullptr
       THEN /\ call' = [call EXCEPT ![c] =
                    [pc |-> "done", ktp |-> ktp, partition |-> nullptr,
                     held |-> nullptr, raised |-> fault]]
            /\ result' = [result EXCEPT ![c] =
                    [outcome |-> "empty", proxy |-> nullptr,
                     fault |-> nullptr]]
            /\ UNCHANGED use_count
       ELSE /\ call' = [call EXCEPT ![c] =
                    [pc |-> "got", ktp |-> ktp,
                     partition |-> get(ntp_table, ktp),
                     held |-> get(ntp_table, ktp), raised |-> nullptr]]
            /\ use_count' = acquire(use_count, get(ntp_table, ktp))
            /\ UNCHANGED result
    /\ last' = NoOp
    /\ UNCHANGED <<ntp_table, adapters, adapter_partition, proxies, impl>>

\* the lookup takes the partition out of the registry
make_partition_proxy_get_take(c, ktp, fault) ==
    /\ call[c].pc = "idle"
    /\ IF fault # nullptr
       THEN /\ call' = [call EXCEPT ![c] =
                    [pc |-> "done", ktp |-> ktp, partition |-> nullptr,
                     held |-> nullptr, raised |-> fault]]
            /\ result' = [result EXCEPT ![c] =
                    [outcome |-> "fault", proxy |-> nullptr,
                     fault |-> fault]]
            /\ UNCHANGED <<use_count, ntp_table>>
       ELSE /\ call' = [call EXCEPT ![c] =
                    [pc |-> "got", ktp |-> ktp,
                     partition |-> get(ntp_table, ktp),
                     held |-> get(ntp_table, ktp), raised |-> nullptr]]
            /\ ntp_table' = [ntp_table EXCEPT ![ktp] = nullptr]
            /\ UNCHANGED <<result, use_count>>
    /\ last' = NoOp
    /\ UNCHANGED <<adapters, adapter_partition, proxies, impl>>

\* line 26: auto partition = cluster_pm.get(ktp).  The local holds one more
\* reference to the partition found.  A fault raised by the registry is not
\* caught anywhere in the function: it leaves it as it is.
make_partition_proxy_get(c, ktp, fault) ==
    /\ call[c].pc = "idle"
    /\ IF fault # nullptr
       THEN /\ call' = [call EXCEPT ![c] =
                    [pc |-> "done", ktp |-> ktp, partition |-> nullptr,
                     held |-> nullptr, raised |-> fault]]
            /\ result' = [result EXCEPT ![c] =
                    [outcome |-> "fault", proxy |-> nullptr,
                     fault |-> fault]]
            /\ UNCHANGED use_count
       ELSE /\ call' = [call EXCEPT ![c] =
                    [pc |-> "got", ktp |-> ktp,
                     partition |-> get(ntp_table, ktp),
                     held |-> get(ntp_table, ktp), raised |-> nullptr]]
            /\ use_count' = acquire(use_count, get(ntp_table, ktp))
            /\ UNCHANGED result
    /\ last' = NoOp
    /\ UNCHANGED <<ntp_table, adapters, adapter_partition, proxies, impl>>

\* lines 27-31: branch, construction, return; the local handle is destroyed
\* when the function is left.
make_partition_proxy_return(c) ==
    /\ call[c].pc = "got"
    /\ FreeProxies(Heap) # {}
    /\ FreeAdapters(Heap) # {}
    /\ LET r == make_partition_proxy(Heap, Min(FreeProxies(Heap)),
                                     call[c].partition)
           left == [r.heap EXCEPT
                       !.use_count = release(@, call[c].partition)] IN
       /\ SetHeap(left)
       /\ result' = [result EXCEPT ![c] = r.result]
    /\ call' = [call EXCEPT ![c].pc = "done", ![c].partition = nullptr]
    /\ last' = NoOp
    /\ UNCHANGED ntp_table

\* the caller takes the returned value (or handles the fault)
accept(c) ==
    /\ call[c].pc = "done"
    /\ call' = [call EXCEPT ![c] = NoCall]
    /\ result' = [result EXCEPT ![c] = NoResult]
    /\ last' = NoOp
    /\ UNCHANGED <<ntp_table, use_count, adapters, adapter_partition,
                   proxies, impl>>

\* -------------------------------------------------- registry operations
\* partition_manager::manage: a new partition object enters the table
manage(ktp) ==
    /\ ntp_table[ktp] = nullptr
    /\ FreeHandles # {}
    /\ LET h == Min(FreeHandles) IN
       /\ ntp_table' = [ntp_table EXCEPT ![ktp] = h]
       /\ use_count' = acquire(use_count, h)
    /\ last' = NoOp
    /\ UNCHANGED <<adapters, adapter_partition, proxies, impl, call, result>>

\* partition_manager::remove: the table drops its reference
remove(ktp) ==
    /\ ntp_table[ktp] # nullptr
    /\ ntp_table' = [ntp_table EXCEPT ![ktp] = nullptr]
    /\ use_count' = release(use_count, ntp_table[ktp])
    /\ last' = NoOp
    /\ UNCHANGED <<adapters, adapter_partition, proxies, impl, call, result>>

\* the registry's bookkeeping is destroyed as a whole
RECURSIVE release_all(_, _)
release_all(uc, hs) ==
    IF hs = {} THEN uc
    ELSE LET h == Min(hs) IN release_all(release(uc, h), hs \ {h})

stop_partitions ==
    /\ \E k \in Ids : ntp_table[k] # nullptr
    /\ ntp_table' = [k \in Ids |-> nullptr]
    /\ use_count' = release_all(use_count,
                        {ntp_table[k] : k \in Ids} \ {nullptr})
    /\ last' = NoOp
    /\ UNCHANGED <<adapters, adapter_partition, proxies, impl, call, result>>

\* ---------------------------------------------------- proxy operations
\* a proxy still inside a returned optional is not yet the caller's
Pending(p) == \E c \in Callers : result[c].proxy = p

\* partition_proxy(partition_proxy&&): the unique_ptr moves to dst, the
\* source keeps an empty one
move_proxy(src, dst) ==
    /\ src \in proxies
    /\ ~Pending(src)
    /\ dst \notin proxies
    /\ proxies' = proxies \cup {dst}
    /\ impl' = [impl EXCEPT ![dst] = impl[src], ![src] = nullptr]
    /\ last' = [kind |-> "move", proxy |-> src, other |-> dst,
                adapter |-> impl[src], handle |-> nullptr, op |-> nullptr]
    /\ UNCHANGED <<ntp_table, use_count, adapters, adapter_partition,
                   call, result>>

\* ~partition_proxy: the unique_ptr deletes the adapter, whose handle goes
destroy_proxy(p) ==
    /\ p \in proxies
    /\ ~Pending(p)
    /\ proxies' = proxies \ {p}
    /\ impl' = [impl EXCEPT ![p] = nullptr]
    /\ IF impl[p] # nullptr
       THEN /\ adapters' = adapters \ {impl[p]}
            /\ adapter_partition' =
                   [adapter_partition EXCEPT ![impl[p]] = nullptr]
            /\ use_count' = release(use_count, adapter_partition[impl[p]])
            /\ last' = [kind |-> "destroy", proxy |-> p, other |-> nullptr,
                        adapter |-> impl[p],
                        handle |-> adapter_partition[impl[p]],
                        op |-> nullptr]
       ELSE /\ UNCHANGED <<adapters, adapter_partition, use_count>>
            /\ last' = [kind |-> "destroy", proxy |-> p, other |-> nullptr,
                        adapter |-> nullptr, handle |-> nullptr,
                        op |-> nullptr]
    /\ UNCHANGED <<ntp_table, call, result>>

\* a capability-interface call: return _impl->op(...).  Calling through a
\* moved-from proxy dereferences a null pointer; callers do not do it.
invoke(p, op) ==
    /\ p \in proxies
    /\ impl[p] # nullptr
    /\ last' = [kind |-> "invoke", proxy |-> p, other |-> nullptr,
                adapter |-> impl[p],
                handle |-> adapter_partition[impl[p]], op |-> op]
    /\ UNCHANGED <<ntp_table, use_count, adapters, adapter_partition,
                   proxies, impl, call, result>>

\* ------------------------------------------------------- specification
Init ==
    /\ ntp_table = [k \in Ids |-> nullptr]
    /\ use_count = [h \in Handles |-> 0]
    /\ adapters = {}
    /\ adapter_partition = [a \in AdapterIds |-> nullptr]
    /\ proxies = {}
    /\ impl = [p \in ProxyIds |-> nullptr]
    /\ call = [c \in Callers |-> NoCall]
    /\ result = [c \in Callers |-> NoResult]
    /\ last = NoOp

Next ==
    \/ \E c \in Callers, k \in Ids, f \in Faults \cup {nullptr} :
           make_partition_proxy_get(c, k, f)
    \/ \E c \in Callers : make_partition_proxy_return(c)
    \/ \E c \in Callers : accept(c)
    \/ \E k \in Ids : manage(k)
    \/ \E k \in Ids : remove(k)
    \/ stop_partitions
    \/ \E s \in ProxyIds, d \in ProxyIds : move_proxy(s, d)
    \/ \E p \in ProxyIds : destroy_proxy(p)
    \/ \E p \in ProxyIds, o \in Ops : invoke(p, o)

Spec == Init /\ [][Next]_vars

\* ------------------------------------------------------------ helpers
Owns(p) == p \in proxies /\ impl[p] # nullptr
Owners(a) == {p \in proxies : impl[p] = a}
HandleOf(p) == adapter_partition[impl[p]]
Live(h) == h \in Handles /\ use_count[h] >= 1
Registered == {ntp_table[k] : k \in Ids} \ {nullptr}
RegistryHolds(h) == Cardinality({k \in Ids : ntp_table[k] = h})
LocalHolds(h) == Cardinality({c \in Callers : call[c].partition = h})
AdaptersOf(h) == {a \in adapters : adapter_partition[a] = h}
ProxiesOf(h) == {p \in proxies : Owns(p) /\ HandleOf(p) = h}
Looks(c) == call[c].pc = "idle" /\ call'[c].pc # "idle"
Returns(c) == call[c].pc = "got" /\ call'[c].pc = "done"
Found(c) ==
    /\ call[c].pc = "done"
    /\ call[c].raised = nullptr
    /\ call[c].held # nullptr

\* ------------------------------------------------------------- claims
\* C1: when the registry did not hold the identifier at the lookup, the
\* call returns the empty optional and constructs neither a proxy nor an
\* adapter.
C1_AbsentReturnsEmpty ==
    [][\A c \in Callers :
          (Returns(c) /\ call[c].held = nullptr) =>
              /\ result'[c].outcome = "empty"
              /\ result'[c].proxy = nullptr
              /\ proxies' = proxies
              /\ adapters' = adapters
              /\ impl' = impl
              /\ adapter_partition' = adapter_partition]_vars

C1_Witness ==
    \E c \in Callers :
        /\ call[c].pc = "done"
        /\ call[c].raised = nullptr
        /\ call[c].held = nullptr
        /\ Registered # {}

\* C2: when the registry held the identifier at the lookup, the call
\* returns a proxy that alone owns exactly one adapter allocated by this
\* call, and that adapter stores the handle the registry returned.
C2_FoundReturnsOwningProxy ==
    [][\A c \in Callers :
          (Returns(c) /\ call[c].held # nullptr) =>
              LET p == result'[c].proxy IN
              /\ result'[c].outcome = "proxy"
              /\ p \in proxies' \ proxies
              /\ proxies' = proxies \cup {p}
              /\ impl'[p] \in adapters' \ adapters
              /\ adapters' = adapters \cup {impl'[p]}
              /\ adapter_partition'[impl'[p]] = call[c].held
              /\ \A q \in proxies' \ {p} : impl'[q] # impl'[p]]_vars

C2_Witness ==
    \E c \in Callers :
        /\ Found(c)
        /\ \E k \in Ids : k # call[c].ktp
                          /\ ntp_table[k] \notin {nullptr, call[c].held}

\* C3: a fault raised by the registry lookup reaches the caller as that
\* same fault; the call yields neither the empty optional nor a proxy.
C3_FaultPropagates ==
    \A c \in Callers :
        call[c].raised # nullptr =>
            /\ call[c].pc = "done"
            /\ result[c].outcome = "fault"
            /\ result[c].fault = call[c].raised
            /\ result[c].proxy = nullptr

C3_Witness ==
    \E c \in Callers :
        /\ call[c].raised = NumFaults
        /\ ntp_table[call[c].ktp] # nullptr

\* C4: two calls that looked the same identifier up and got the same
\* handle return two proxies with two distinct adapters around that one
\* handle; after the destruction of a proxy every other proxy still owns a
\* live adapter whose handle is live.
C4_IndependentProxies ==
    /\ \A c, d \in Callers :
           (c # d /\ Found(c) /\ Found(d) /\ call[c].ktp = call[d].ktp
                  /\ call[c].held = call[d].held) =>
               LET p == result[c].proxy
                   q == result[d].proxy IN
               /\ p \in proxies /\ q \in proxies /\ p # q
               /\ impl[p] \in adapters /\ impl[q] \in adapters
               /\ impl[p] # impl[q]
               /\ adapter_partition[impl[p]] = call[c].held
               /\ adapter_partition[impl[q]] = call[c].held
    /\ last.kind = "destroy" =>
           \A q \in proxies :
               Owns(q) => /\ impl[q] \in adapters
                          /\ impl[q] # last.adapter
                          /\ Live(HandleOf(q))

C4_Witness ==
    /\ last.kind = "destroy"
    /\ last.handle # nullptr
    /\ \E q \in proxies : Owns(q) /\ HandleOf(q) = last.handle

\* C5: whatever the registry does after a proxy was returned, the handle
\* stored in the proxy's adapter stays live while the proxy exists.
C5_HandleOutlivesRegistry ==
    \A p \in proxies :
        Owns(p) => /\ HandleOf(p) \in Handles
                   /\ use_count[HandleOf(p)] >= 1
                   /\ use_count[HandleOf(p)] >
                          RegistryHolds(HandleOf(p))

C5_Witness ==
    \E p \in proxies :
        /\ Owns(p)
        /\ HandleOf(p) \notin Registered
        /\ Registered # {}

C7_ExclusiveOwnership ==
    /\ \A a \in AdapterIds : Cardinality(Owners(a)) <= 1
    /\ \A a \in adapters : Cardinality(Owners(a)) = 1
    /\ last.kind = "move" =>
           /\ last.proxy \in proxies
           /\ last.other \in proxies
           /\ impl[last.proxy] = nullptr
           /\ impl[last.other] = last.adapter

C7_Witness ==
    /\ last.kind = "move"
    /\ last.adapter # nullptr
    /\ Cardinality(adapters) = 1

\* C8: the destruction of a proxy frees its adapter and with it one hold on
\* the handle: the holds of adapters on a handle are as many as the proxies
\* that own an adapter around it, and a handle held by no proxy, no call in
\* flight and not by the registry has no hold left.
C8_HoldsFollowProxies ==
    /\ \A h \in Handles :
           /\ use_count[h] - RegistryHolds(h) - LocalHolds(h)
                  = Cardinality(ProxiesOf(h))
           /\ Cardinality(AdaptersOf(h)) = Cardinality(ProxiesOf(h))
           /\ (ProxiesOf(h) = {} /\ RegistryHolds(h) = 0
                                 /\ LocalHolds(h) = 0) => use_count[h] = 0
    /\ (last.kind = "destroy" /\ last.adapter # nullptr) =>
           last.adapter \notin adapters

C8_Witness ==
    /\ last.kind = "destroy"
    /\ last.handle \in Handles
    /\ last.handle \notin Registered
    /\ ProxiesOf(last.handle) = {}
    /\ LocalHolds(last.handle) = 0

\* C9: a call does not change the registry, and however calls and registry
\* operations interleave, every call returns what the registry held for
\* its identifier at its lookup: a proxy of its own around that handle, or
\* the empty optional.
C9_CallsAreIndependent ==
    /\ [](\A c \in Callers :
             (call[c].pc = "done" /\ call[c].raised = nullptr) =>
                 IF call[c].held = nullptr
                 THEN result[c].outcome = "empty"
                 ELSE /\ result[c].outcome = "proxy"
                      /\ Owns(result[c].proxy)
                      /\ HandleOf(result[c].proxy) = call[c].held
                      /\ \A d \in Callers \ {c} :
                             result[d].proxy # result[c].proxy)
    /\ [][\A c \in Callers :
             /\ (Looks(c) \/ Returns(c)) => ntp_table' = ntp_table
             /\ (Looks(c) /\ call'[c].raised = nullptr) =>
                    /\ call'[c].held = ntp_table[call'[c].ktp]
                    /\ call'[c].partition = call'[c].held]_vars

C9_Witness ==
    \E c, d \in Callers :
        /\ c # d
        /\ call[c].pc = "done" /\ call[d].pc = "done"
        /\ call[c].ktp = call[d].ktp
        /\ call[c].raised = nullptr /\ call[d].raised = nullptr
        /\ call[c].held = nullptr
        /\ call[d].held # nullptr

====
